---- MODULE Spec2Model ----
(***************************************************************************)
(* Model of cost_effectiveness_analysis.py: a deterministic cost-          *)
(* effectiveness analysis of two interventions.  The script is a straight  *)
(* line of statements: input definition, calculation, five print           *)
(* statements, the cost-effectiveness plane, the image write, the summary  *)
(* table.                                                                  *)
(*                                                                         *)
(* Numbers.  Python's numbers are modelled as exact fractions n/d whose    *)
(* numerator and denominator are arbitrary-precision integers (sequences   *)
(* of limbs, least significant first), since the base-case figures exceed  *)
(* the 32-bit integers of the model checker.  d = 0 with n # 0 is          *)
(* float('inf') (or -inf); d = 0 with n = 0 stands for a raised            *)
(* ZeroDivisionError.  Binary rounding of floats is not modelled.          *)
(***************************************************************************)
EXTENDS Integers, Sequences, FiniteSets, TLC

\* ------------------------------------------------------------------------
\* Natural numbers of any size: a sequence of limbs in 0..Base-1, least
\* significant first, without leading (trailing in the sequence) zeros.
Base == 10 * 1000

RECURSIVE NFromInt(_)
NFromInt(k) == IF k = 0 THEN <<>> ELSE <<k % Base>> \o NFromInt(k \div Base)

RECURSIVE NNorm(_)
NNorm(a) ==
    IF a = <<>> THEN <<>>
    ELSE IF a[Len(a)] = 0 THEN NNorm(SubSeq(a, 1, Len(a) - 1))
    ELSE a

RECURSIVE NAddC(_, _, _)
NAddC(a, b, c) ==
    IF a = <<>> /\ b = <<>> THEN (IF c = 0 THEN <<>> ELSE <<c>>)
    ELSE LET x == IF a = <<>> THEN 0 ELSE Head(a)
             y == IF b = <<>> THEN 0 ELSE Head(b)
             s == x + y + c
         IN  <<s % Base>> \o NAddC(IF a = <<>> THEN a ELSE Tail(a),
                                   IF b = <<>> THEN b ELSE Tail(b),
                                   s \div Base)

NAdd(a, b) == NAddC(a, b, 0)

\* a - b for a >= b (before normalisation)
RECURSIVE NSubB(_, _, _)
NSubB(a, b, c) ==
    IF a = <<>> THEN <<>>
    ELSE LET y == IF b = <<>> THEN 0 ELSE Head(b)
             s == Head(a) - y - c
         IN  <<IF s < 0 THEN s + Base ELSE s>>
             \o NSubB(Tail(a), IF b = <<>> THEN b ELSE Tail(b),
                      IF s < 0 THEN 1 ELSE 0)

NSub(a, b) == NNorm(NSubB(a, b, 0))

\* -1, 0, 1 as a < b, a = b, a > b
RECURSIVE NCmpAt(_, _, _)
NCmpAt(a, b, i) ==
    IF i = 0 THEN 0
    ELSE IF a[i] < b[i] THEN -1
    ELSE IF a[i] > b[i] THEN 1
    ELSE NCmpAt(a, b, i - 1)

NCmp(a, b) ==
    IF Len(a) < Len(b) THEN -1
    ELSE IF Len(a) > Len(b) THEN 1
    ELSE NCmpAt(a, b, Len(a))

RECURSIVE NMulSmallC(_, _, _)
NMulSmallC(a, k, c) ==
    IF a = <<>> THEN (IF c = 0 THEN <<>> ELSE <<c>>)
    ELSE LET s == Head(a) * k + c
         IN  <<s % Base>> \o NMulSmallC(Tail(a), k, s \div Base)

NMulSmall(a, k) == IF k = 0 THEN <<>> ELSE NMulSmallC(a, k, 0)

NShift(a) == IF a = <<>> THEN <<>> ELSE <<0>> \o a

RECURSIVE NMul(_, _)
NMul(a, b) ==
    IF a = <<>> \/ b = <<>> THEN <<>>
    ELSE NAdd(NMulSmall(a, Head(b)), NShift(NMul(a, Tail(b))))

\* the largest k in lo..hi with b * k <= cur (b * lo <= cur is given)
RECURSIVE NDigit(_, _, _, _)
NDigit(cur, b, lo, hi) ==
    IF lo = hi THEN lo
    ELSE LET mid == (lo + hi + 1) \div 2
         IN  IF NCmp(NMulSmall(b, mid), cur) <= 0
             THEN NDigit(cur, b, mid, hi)
             ELSE NDigit(cur, b, lo, mid - 1)

\* floor division with remainder, b # 0: [q, r] with a = q * b + r, r < b
RECURSIVE NDivMod(_, _)
NDivMod(a, b) ==
    IF a = <<>> THEN [q |-> <<>>, r |-> <<>>]
    ELSE LET hi  == NDivMod(Tail(a), b)
             cur == NNorm(<<Head(a)>> \o hi.r)
             k   == NDigit(cur, b, 0, Base - 1)
         IN  [q |-> NNorm(<<k>> \o hi.q), r |-> NSub(cur, NMulSmall(b, k))]

\* ------------------------------------------------------------------------
\* Signed integers of any size: [neg, mag], zero never negative.
ZMake(neg, mag) == [neg |-> neg /\ mag # <<>>, mag |-> mag]

ZFromInt(k) == IF k < 0 THEN ZMake(TRUE, NFromInt(-k)) ELSE ZMake(FALSE, NFromInt(k))

ZZero == ZFromInt(0)

ZNeg(a) == ZMake(~a.neg, a.mag)

ZAbs(a) == ZMake(FALSE, a.mag)

ZSign(a) == IF a.mag = <<>> THEN 0 ELSE IF a.neg THEN -1 ELSE 1

ZAdd(a, b) ==
    IF a.neg = b.neg THEN ZMake(a.neg, NAdd(a.mag, b.mag))
    ELSE IF NCmp(a.mag, b.mag) >= 0 THEN ZMake(a.neg, NSub(a.mag, b.mag))
    ELSE ZMake(b.neg, NSub(b.mag, a.mag))

ZSub(a, b) == ZAdd(a, ZNeg(b))

ZMul(a, b) == ZMake(a.neg # b.neg, NMul(a.mag, b.mag))

ZMulN(a, m) == ZMake(a.neg, NMul(a.mag, m))

ZCmp(a, b) == ZSign(ZSub(a, b))

\* ------------------------------------------------------------------------
\* Python numbers: [n, d] is n/d with d > 0; d = 0 is an infinity of n's sign,
\* or, with n = 0, no value at all (the expression raised, or the name is not
\* bound yet).
FNum(k) == [n |-> ZFromInt(k), d |-> NFromInt(1)]

\* the decimal literal k / scale, e.g. 3.57 = FDec(357, 100)
FDec(k, scale) == [n |-> ZFromInt(k), d |-> NFromInt(scale)]

Inf == [n |-> ZFromInt(1), d |-> <<>>]

NoValue == [n |-> ZZero, d |-> <<>>]

IsFinite(a) == a.d # <<>>

IsInf(a) == a.d = <<>> /\ a.n # ZZero

FSign(a) == ZSign(a.n)

FNeg(a) == [n |-> ZNeg(a.n), d |-> a.d]

FAbs(a) == [n |-> ZAbs(a.n), d |-> a.d]

FAdd(a, b) ==
    IF ~IsFinite(a) THEN a
    ELSE IF ~IsFinite(b) THEN b
    ELSE IF a.d = b.d THEN [n |-> ZAdd(a.n, b.n), d |-> a.d]
    ELSE [n |-> ZAdd(ZMulN(a.n, b.d), ZMulN(b.n, a.d)), d |-> NMul(a.d, b.d)]

FSub(a, b) == FAdd(a, FNeg(b))

FMul(a, b) ==
    IF a = NoValue \/ b = NoValue THEN NoValue
    ELSE IF IsFinite(a) /\ IsFinite(b)
         THEN [n |-> ZMul(a.n, b.n), d |-> NMul(a.d, b.d)]
    ELSE [n |-> ZFromInt(FSign(a) * FSign(b)), d |-> <<>>]

\* a / b; Python raises ZeroDivisionError when b is zero
FDiv(a, b) ==
    IF a = NoValue \/ b = NoValue THEN NoValue
    ELSE IF IsFinite(b) /\ FSign(b) = 0 THEN NoValue
    ELSE IF IsInf(b) THEN (IF IsInf(a) THEN NoValue ELSE FNum(0))
    ELSE IF IsInf(a) THEN [n |-> ZFromInt(FSign(a) * FSign(b)), d |-> <<>>]
    ELSE [n |-> ZMake(a.n.neg # b.n.neg, NMul(a.n.mag, b.d)),
          d |-> NMul(a.d, b.n.mag)]

\* a ** y for a natural number y
RECURSIVE FPow(_, _)
FPow(a, y) == IF y = 0 THEN FNum(1) ELSE FMul(a, FPow(a, y - 1))

\* -1, 0, 1 as a < b, a == b, a > b (neither is NoValue)
FCmp(a, b) ==
    IF IsInf(a) \/ IsInf(b)
    THEN LET ka == IF IsInf(a) THEN FSign(a) ELSE 0
             kb == IF IsInf(b) THEN FSign(b) ELSE 0
         IN  IF ka < kb THEN -1 ELSE IF ka > kb THEN 1 ELSE 0
    ELSE ZCmp(ZMulN(a.n, b.d), ZMulN(b.n, a.d))

FEq(a, b) == a # NoValue /\ b # NoValue /\ FCmp(a, b) = 0

FLt(a, b) == a # NoValue /\ b # NoValue /\ FCmp(a, b) < 0

FMin(a, b) == IF FCmp(b, a) < 0 THEN b ELSE a

FMax(a, b) == IF FCmp(b, a) > 0 THEN b ELSE a

\* ------------------------------------------------------------------------
\* "{:.2f}".format(a): the decimal text of a rounded to two places (ties to
\* even), as a sequence of characters.
DigitChar(k) == <<"0", "1", "2", "3", "4", "5", "6", "7", "8", "9">>[k + 1]

LimbChars(l) ==
    <<DigitChar(l \div 1000), DigitChar((l \div 100) % 10),
      DigitChar((l \div 10) % 10), DigitChar(l % 10)>>

RECURSIVE NChars(_)
NChars(a) == IF a = <<>> THEN <<>> ELSE NChars(Tail(a)) \o LimbChars(Head(a))

RECURSIVE StripZeros(_)
StripZeros(s) ==
    IF Len(s) > 3 /\ Head(s) = "0" THEN StripZeros(Tail(s)) ELSE s

\* RoundCents cutting the third decimal off instead of rounding
TruncCents(a) == NDivMod(NMulSmall(a.n.mag, 100), a.d).q

\* round(100 * |a|) for finite a, ties to even
RoundCents(a) ==
    LET dm   == NDivMod(NMulSmall(a.n.mag, 100), a.d)
        twice == NCmp(NMulSmall(dm.r, 2), a.d)
        odd  == dm.q # <<>> /\ Head(dm.q) % 2 = 1
    IN  IF twice > 0 \/ (twice = 0 /\ odd) THEN NAdd(dm.q, NFromInt(1)) ELSE dm.q

Format2f(a) ==
    IF a = NoValue THEN <<"n", "a", "n">>
    ELSE LET sign == IF a.n.neg THEN <<"-">> ELSE <<>>
         IN  IF IsInf(a) THEN sign \o <<"i", "n", "f">>
             ELSE LET s == StripZeros(<<"0", "0", "0">> \o NChars(RoundCents(a)))
                  IN  sign \o SubSeq(s, 1, Len(s) - 2) \o <<".">>
                           \o SubSeq(s, Len(s) - 1, Len(s))

\* ------------------------------------------------------------------------
\* The functions of the script.
total_cost(base_cost, visits, visit_cost, tests, test_cost) ==
    FAdd(FAdd(base_cost, FMul(visits, visit_cost)), FMul(tests, test_cost))

\* discount_value compounding the wrong way: value * (1 + rate) ** years
discount_value_compounded(value, rate, yrs) ==
    FMul(value, FPow(FAdd(FNum(1), rate), yrs))

\* discount_value with * for **: value / ((1 + rate) * years)
discount_value_times(value, rate, yrs) ==
    FDiv(value, FMul(FAdd(FNum(1), rate), FNum(yrs)))

discount_value(value, rate, yrs) ==
    FDiv(value, FPow(FAdd(FNum(1), rate), yrs))

\* calculate_cost_per_qaly without its qaly == 0 test
calculate_cost_per_qaly_unguarded(cost, qaly) == FDiv(cost, qaly)

calculate_cost_per_qaly(cost, qaly) ==
    IF FEq(qaly, FNum(0)) THEN Inf ELSE FDiv(cost, qaly)

\* calculate_icer without its delta_qaly == 0 test
calculate_icer_unguarded(cost1, cost2, qaly1, qaly2) ==
    FDiv(FAbs(FSub(cost1, cost2)), FSub(qaly1, qaly2))

\* calculate_icer with a signed numerator: (cost1 - cost2) / (qaly1 - qaly2)
calculate_icer_signed(cost1, cost2, qaly1, qaly2) ==
    IF FEq(FSub(qaly1, qaly2), FNum(0)) THEN Inf
    ELSE FDiv(FSub(cost1, cost2), FSub(qaly1, qaly2))

\* calculate_icer with the QALYs subtracted the other way round
calculate_icer_reversed(cost1, cost2, qaly1, qaly2) ==
    IF FEq(FSub(qaly2, qaly1), FNum(0)) THEN Inf
    ELSE FDiv(FAbs(FSub(cost1, cost2)), FSub(qaly2, qaly1))

calculate_icer(cost1, cost2, qaly1, qaly2) ==
    LET delta_cost == FAbs(FSub(cost1, cost2))
        delta_qaly == FSub(qaly1, qaly2)
    IN  IF FEq(delta_qaly, FNum(0)) THEN Inf ELSE FDiv(delta_cost, delta_qaly)

\* ------------------------------------------------------------------------
\* Inputs (lines 22-43).  The script fixes them as literals; the model draws
\* them from sets that hold the literals and the discounting scenario.
MaxVisits == 1

MaxTests == 1

CostsA == {FNum(0), FNum(46734)}

CostsB == {FNum(45447), FNum(46734)}

QalysA == {FNum(0), FDec(346, 100), FDec(357, 100)}

QalysB == {FDec(346, 100), FDec(357, 100)}

VisitCosts == {FNum(0), FNum(120)}

TestCosts == {FNum(0), FNum(35)}

DiscountRates == {FNum(0), FDec(35, 1000)}

Horizons == {0, 5}

wtp == FNum(20000)

Inputs ==
    [cost_intervention_A : CostsA, cost_intervention_B : CostsB,
     qaly_intervention_A : QalysA, qaly_intervention_B : QalysB,
     cost_per_outpatient_visit : VisitCosts, cost_per_test : TestCosts,
     number_of_visits_A : 0..MaxVisits, number_of_tests_A : {0},
     number_of_visits_B : {0}, number_of_tests_B : 0..MaxTests,
     discount_rate : DiscountRates, years : Horizons]

\* ------------------------------------------------------------------------
\* State: the script's position, its module-level names, what it has printed,
\* the figure, the image file and the table.
VARIABLES pc, inp, calc, stdout, plot, image, df, error

vars == <<pc, inp, calc, stdout, plot, image, df, error>>

NoInputs ==
    [cost_intervention_A |-> NoValue, cost_intervention_B |-> NoValue,
     qaly_intervention_A |-> NoValue, qaly_intervention_B |-> NoValue,
     cost_per_outpatient_visit |-> NoValue, cost_per_test |-> NoValue,
     number_of_visits_A |-> 0, number_of_tests_A |-> 0,
     number_of_visits_B |-> 0, number_of_tests_B |-> 0,
     discount_rate |-> NoValue, years |-> 0]

NoCalc ==
    [total_cost_A |-> NoValue, total_cost_B |-> NoValue,
     discounted_cost_A |-> NoValue, discounted_cost_B |-> NoValue,
     cost_per_qaly_A |-> NoValue, cost_per_qaly_B |-> NoValue,
     icer |-> NoValue]

NoPlot ==
    [delta_cost |-> NoValue, delta_qaly |-> NoValue,
     point |-> <<NoValue, NoValue>>,
     x |-> <<NoValue, NoValue>>, y |-> <<NoValue, NoValue>>,
     xlim |-> <<NoValue, NoValue>>, ylim |-> <<NoValue, NoValue>>,
     x_values |-> <<NoValue, NoValue>>, y_values |-> <<NoValue, NoValue>>]

Init ==
    /\ pc = "inputs"
    /\ inp = NoInputs
    /\ calc = NoCalc
    /\ stdout = <<>>
    /\ plot = NoPlot
    /\ image = FALSE
    /\ df = <<>>
    /\ error = "none"

\* where a statement that assigns `value` leaves the script
After(value, next) == IF value = NoValue THEN "failed" ELSE next

Raised(value) == IF value = NoValue THEN "ZeroDivisionError" ELSE "none"

\* lines 22-43
DefineInputs ==
    /\ pc = "inputs"
    /\ inp' \in Inputs
    /\ pc' = "total"
    /\ UNCHANGED <<calc, stdout, plot, image, df, error>>

\* lines 77-78
ComputeTotalCosts ==
    /\ pc = "total"
    /\ calc' = [calc EXCEPT
          !.total_cost_A = total_cost(inp.cost_intervention_A,
                               FNum(inp.number_of_visits_A), inp.cost_per_outpatient_visit,
                               FNum(inp.number_of_tests_A), inp.cost_per_test),
          !.total_cost_B = total_cost(inp.cost_intervention_B,
                               FNum(inp.number_of_visits_B), inp.cost_per_outpatient_visit,
                               FNum(inp.number_of_tests_B), inp.cost_per_test)]
    /\ pc' = "discount"
    /\ UNCHANGED <<inp, stdout, plot, image, df, error>>

\* lines 80-81
ComputeDiscountedCosts ==
    LET a == discount_value(calc.total_cost_A, inp.discount_rate, inp.years)
        b == IF a = NoValue THEN NoValue
             ELSE discount_value(calc.total_cost_B, inp.discount_rate, inp.years)
    IN  /\ pc = "discount"
        /\ calc' = [calc EXCEPT !.discounted_cost_A = a, !.discounted_cost_B = b]
        /\ pc' = After(b, "cost_per_qaly")
        /\ error' = Raised(b)
        /\ UNCHANGED <<inp, stdout, plot, image, df>>

\* lines 83-84
ComputeCostPerQaly ==
    LET a == calculate_cost_per_qaly(calc.discounted_cost_A, inp.qaly_intervention_A)
        b == IF a = NoValue THEN NoValue
             ELSE calculate_cost_per_qaly(calc.discounted_cost_B, inp.qaly_intervention_B)
    IN  /\ pc = "cost_per_qaly"
        /\ calc' = [calc EXCEPT !.cost_per_qaly_A = a, !.cost_per_qaly_B = b]
        /\ pc' = After(b, "icer")
        /\ error' = Raised(b)
        /\ UNCHANGED <<inp, stdout, plot, image, df>>

\* line 87
ComputeIcer ==
    LET v == calculate_icer(calc.discounted_cost_A, calc.discounted_cost_B,
                            inp.qaly_intervention_A, inp.qaly_intervention_B)
    IN  /\ pc = "icer"
        /\ calc' = [calc EXCEPT !.icer = v]
        /\ pc' = After(v, "print")
        /\ error' = Raised(v)
        /\ UNCHANGED <<inp, stdout, plot, image, df>>

\* lines 92-96: the i-th of the five print statements
PrintLine(i) ==
    CASE i = 1 -> <<"Total and Discounted Cost for Intervention A",
                    Format2f(calc.total_cost_A), Format2f(calc.discounted_cost_A)>>
      [] i = 2 -> <<"Total and Discounted Cost for Intervention B",
                    Format2f(calc.total_cost_B), Format2f(calc.discounted_cost_B)>>
      [] i = 3 -> <<"Cost per QALY for Intervention A", Format2f(calc.cost_per_qaly_A)>>
      [] i = 4 -> <<"Cost per QALY for Intervention B", Format2f(calc.cost_per_qaly_B)>>
      [] i = 5 -> <<"ICER (Incremental Cost-Effectiveness Ratio)", Format2f(calc.icer)>>

PrintResults ==
    /\ pc = "print"
    /\ stdout' = Append(stdout, PrintLine(Len(stdout) + 1))
    /\ pc' = IF Len(stdout) + 1 = 5 THEN "plot" ELSE "print"
    /\ UNCHANGED <<inp, calc, plot, image, df, error>>

\* line 120: plt.xlim(-delta_qaly * 1.2, delta_qaly * 1.2)
XLim(delta_qaly) ==
    <<FMul(FNeg(delta_qaly), FDec(12, 10)), FMul(delta_qaly, FDec(12, 10))>>

\* line 121: plt.ylim(-delta_cost * 1.2, delta_cost * 1.2)
YLim(delta_cost) ==
    <<FMul(FNeg(delta_cost), FDec(12, 10)), FMul(delta_cost, FDec(12, 10))>>

\* lines 101-142: the cost-effectiveness plane
RenderPlane ==
    LET delta_cost == FSub(calc.discounted_cost_A, calc.discounted_cost_B)
        delta_qaly == FSub(inp.qaly_intervention_A, inp.qaly_intervention_B)
        x == <<FMin(FNum(-2), FMul(delta_qaly, FDec(12, 10))),
               FMax(FNum(2), FMul(delta_qaly, FDec(12, 10)))>>
        x_values == <<FMin(FNum(-5), FMul(delta_qaly, FDec(12, 10))),
                      FMax(FNum(5), FMul(delta_qaly, FDec(12, 10)))>>
    IN  /\ pc = "plot"
        /\ plot' = [delta_cost |-> delta_cost, delta_qaly |-> delta_qaly,
                    point |-> <<delta_qaly, delta_cost>>,
                    x |-> x,
                    y |-> <<FMul(x[1], calc.icer), FMul(x[2], calc.icer)>>,
                    xlim |-> XLim(delta_qaly),
                    ylim |-> YLim(delta_cost),
                    x_values |-> x_values,
                    y_values |-> <<FMul(x_values[1], wtp), FMul(x_values[2], wtp)>>]
        /\ pc' = "savefig"
        /\ UNCHANGED <<inp, calc, stdout, image, df, error>>

\* lines 144-145: plt.savefig writes CE_plane.png into save_folder
SaveFigure ==
    /\ pc = "savefig"
    /\ image' = TRUE
    /\ pc' = "show"
    /\ UNCHANGED <<inp, calc, stdout, plot, df, error>>

\* SaveFigureFails with the exception swallowed: the script carries on
SaveFigureFailsIgnored ==
    /\ pc = "savefig"
    /\ pc' = "show"
    /\ UNCHANGED <<inp, calc, stdout, plot, image, df, error>>

\* lines 144-145: plt.savefig raises (the hardcoded folder does not exist, or
\* cannot be written); the exception is not caught and the script ends
SaveFigureFails ==
    /\ pc = "savefig"
    /\ pc' = "failed"
    /\ error' = "savefig"
    /\ UNCHANGED <<inp, calc, stdout, plot, image, df>>

\* line 146
ShowFigure ==
    /\ pc = "show"
    /\ pc' = "table"
    /\ UNCHANGED <<inp, calc, stdout, plot, image, df, error>>

\* DataFrame with the undiscounted totals in the Costs column
DataFrameTotals ==
    << [index |-> "Intervention A",
        Costs |-> calc.total_cost_A, QALYs |-> inp.qaly_intervention_A,
        Incremental_costs |-> plot.delta_cost, Incremental_QALY |-> plot.delta_qaly,
        ICER |-> calc.icer],
       [index |-> "Intervention B",
        Costs |-> calc.total_cost_B, QALYs |-> inp.qaly_intervention_B,
        Incremental_costs |-> FNum(0), Incremental_QALY |-> FNum(0),
        ICER |-> FNum(0)] >>

\* lines 151-155: one row per intervention
DataFrame ==
    << [index |-> "Intervention A",
        Costs |-> calc.discounted_cost_A, QALYs |-> inp.qaly_intervention_A,
        Incremental_costs |-> plot.delta_cost, Incremental_QALY |-> plot.delta_qaly,
        ICER |-> calc.icer],
       [index |-> "Intervention B",
        Costs |-> calc.discounted_cost_B, QALYs |-> inp.qaly_intervention_B,
        Incremental_costs |-> FNum(0), Incremental_QALY |-> FNum(0),
        ICER |-> FNum(0)] >>

AssembleTable ==
    /\ pc = "table"
    /\ df' = DataFrame
    /\ pc' = "done"
    /\ UNCHANGED <<inp, calc, stdout, plot, image, error>>

Next ==
    \/ DefineInputs
    \/ ComputeTotalCosts
    \/ ComputeDiscountedCosts
    \/ ComputeCostPerQaly
    \/ ComputeIcer
    \/ PrintResults
    \/ RenderPlane
    \/ SaveFigure
    \/ SaveFigureFails
    \/ ShowFigure
    \/ AssembleTable

Spec == Init /\ [][Next]_vars

\* ------------------------------------------------------------------------
\* Positions of the script, in order.
StepOrder ==
    <<"inputs", "total", "discount", "cost_per_qaly", "icer", "print", "plot",
      "savefig", "show", "table", "done">>

Rank(p) == CHOOSE i \in 1..Len(StepOrder) : StepOrder[i] = p

\* the script has got past position p (a failed image write stopped it at
\* "savefig", past everything before)
Past(p) ==
    IF pc = "failed" THEN error = "savefig" /\ Rank(p) < Rank("savefig")
    ELSE Rank(pc) > Rank(p)

cA == calc.discounted_cost_A

cB == calc.discounted_cost_B

qA == inp.qaly_intervention_A

qB == inp.qaly_intervention_B

SameValue(a, b) == IF IsInf(a) \/ IsInf(b) THEN a = b ELSE FEq(a, b)

\* ------------------------------------------------------------------------
\* C1: calculate_icer never fails; it returns +infinity when qaly1 == qaly2
\* and |cost1 - cost2| / (qaly1 - qaly2) otherwise, hence 0 for equal costs
\* and unequal QALYs, and +infinity for equal QALYs and unequal costs.
IcerContract ==
    /\ ~(pc = "failed" /\ error = "ZeroDivisionError")
    /\ Past("icer") =>
         /\ FEq(qA, qB) => calc.icer = Inf
         /\ ~FEq(qA, qB) =>
              /\ IsFinite(calc.icer)
              /\ FEq(calc.icer, FDiv(FAbs(FSub(cA, cB)), FSub(qA, qB)))
         /\ (FEq(cA, cB) /\ ~FEq(qA, qB)) => FEq(calc.icer, FNum(0))
         /\ (FEq(qA, qB) /\ ~FEq(cA, cB)) => calc.icer = Inf

IcerInfiniteReached == Past("icer") /\ FEq(qA, qB) /\ ~FEq(cA, cB)

\* C2: calculate_cost_per_qaly never raises a division failure; it returns
\* +infinity when qaly == 0 and cost / qaly otherwise, hence 0 for cost 0 and
\* qaly > 0.
CostPerQalyOf(v, cost, qaly) ==
    /\ FEq(qaly, FNum(0)) => v = Inf
    /\ ~FEq(qaly, FNum(0)) => IsFinite(v) /\ FEq(FMul(v, qaly), cost)
    /\ (FEq(cost, FNum(0)) /\ FLt(FNum(0), qaly)) => FEq(v, FNum(0))

CostPerQalyContract ==
    /\ ~(pc = "failed" /\ error = "ZeroDivisionError")
    /\ Past("cost_per_qaly") =>
         /\ CostPerQalyOf(calc.cost_per_qaly_A, cA, qA)
         /\ CostPerQalyOf(calc.cost_per_qaly_B, cB, qB)

CostPerQalyInfiniteReached ==
    Past("cost_per_qaly") /\ FEq(qA, FNum(0)) /\ FLt(FNum(0), cA)

\* C3, as claimed: for qaly1 # qaly2, swapping both pairs leaves
\* calculate_icer unchanged and swapping either pair alone flips its sign.
IcerSwapAsClaimed ==
    (Past("icer") /\ ~FEq(qA, qB)) =>
        /\ FEq(calculate_icer(cB, cA, qB, qA), calc.icer)
        /\ FEq(calculate_icer(cB, cA, qA, qB), FNeg(calc.icer))
        /\ FEq(calculate_icer(cA, cB, qB, qA), FNeg(calc.icer))

\* C3, amended: for qaly1 # qaly2, swapping only the costs leaves
\* calculate_icer unchanged; swapping only the QALYs, or both pairs together,
\* flips its sign.
IcerSwap ==
    (Past("icer") /\ ~FEq(qA, qB)) =>
        /\ FEq(calculate_icer(cB, cA, qA, qB), calc.icer)
        /\ FEq(calculate_icer(cA, cB, qB, qA), FNeg(calc.icer))
        /\ FEq(calculate_icer(cB, cA, qB, qA), FNeg(calc.icer))

IcerSwapReached == Past("icer") /\ ~FEq(qA, qB) /\ ~FEq(cA, cB)

\* ------------------------------------------------------------------------
\* The literal inputs of the script (lines 22-40).
BaseCaseUtilisation ==
    /\ inp.cost_intervention_A = FNum(46734)
    /\ inp.cost_intervention_B = FNum(45447)
    /\ inp.qaly_intervention_A = FDec(357, 100)
    /\ inp.qaly_intervention_B = FDec(346, 100)
    /\ inp.cost_per_outpatient_visit = FNum(0)
    /\ inp.cost_per_test = FNum(0)
    /\ inp.number_of_visits_A = 0 /\ inp.number_of_tests_A = 0
    /\ inp.number_of_visits_B = 0 /\ inp.number_of_tests_B = 0

BaseCase ==
    BaseCaseUtilisation /\ inp.discount_rate = FNum(0) /\ inp.years = 0

\* what the script prints for the base case, given the two costs per QALY
BaseCaseOutput(cpqA, cpqB) ==
    << <<"Total and Discounted Cost for Intervention A",
         <<"4", "6", "7", "3", "4", ".", "0", "0">>,
         <<"4", "6", "7", "3", "4", ".", "0", "0">>>>,
       <<"Total and Discounted Cost for Intervention B",
         <<"4", "5", "4", "4", "7", ".", "0", "0">>,
         <<"4", "5", "4", "4", "7", ".", "0", "0">>>>,
       <<"Cost per QALY for Intervention A", cpqA>>,
       <<"Cost per QALY for Intervention B", cpqB>>,
       <<"ICER (Incremental Cost-Effectiveness Ratio)",
         <<"1", "1", "7", "0", "0", ".", "0", "0">>>> >>

\* C4, as claimed: the base case prints 46734.00, 45447.00 (discounted equal
\* to total), cost per QALY 13091.60 and 13134.68, ICER 11700.00.
BaseCaseAsClaimed ==
    (BaseCase /\ Past("print")) =>
        /\ stdout = BaseCaseOutput(<<"1", "3", "0", "9", "1", ".", "6", "0">>,
                                   <<"1", "3", "1", "3", "4", ".", "6", "8">>)
        /\ FEq(cA, calc.total_cost_A) /\ FEq(cB, calc.total_cost_B)

\* C4, amended: the base case prints 46734.00, 45447.00 (discounted equal to
\* total), cost per QALY 13090.76 and 13134.97, ICER 11700.00.
BaseCaseFigures ==
    (BaseCase /\ Past("print")) =>
        /\ stdout = BaseCaseOutput(<<"1", "3", "0", "9", "0", ".", "7", "6">>,
                                   <<"1", "3", "1", "3", "4", ".", "9", "7">>)
        /\ FEq(cA, calc.total_cost_A) /\ FEq(cB, calc.total_cost_B)

BaseCasePrinted == BaseCase /\ Past("print") /\ Len(stdout) = 5

\* ------------------------------------------------------------------------
\* C5: discount_value(value, rate, years) is value / (1 + rate) ** years, and
\* is value itself when rate is 0 or years is 0, so that then each discounted
\* cost equals its total cost.
DiscountOf(v, value) ==
    /\ IsFinite(v)
    /\ FEq(FMul(v, FPow(FAdd(FNum(1), inp.discount_rate), inp.years)), value)
    /\ (FEq(inp.discount_rate, FNum(0)) \/ inp.years = 0) => FEq(v, value)

DiscountContract ==
    Past("discount") =>
        /\ DiscountOf(cA, calc.total_cost_A)
        /\ DiscountOf(cB, calc.total_cost_B)

DiscountIdentityReached ==
    /\ Past("discount")
    /\ FEq(inp.discount_rate, FNum(0)) /\ inp.years > 0
    /\ FLt(FNum(0), calc.total_cost_A)

\* The discounting scenario: the base case at 3.5% over 5 years.
DiscountScenario ==
    BaseCaseUtilisation /\ inp.discount_rate = FDec(35, 1000) /\ inp.years = 5

\* C6, as claimed: in the discounting scenario the discounted cost of A is
\* 39331.58 to two places.
DiscountScenarioAsClaimed ==
    (DiscountScenario /\ Past("discount")) =>
        Format2f(cA) = <<"3", "9", "3", "3", "1", ".", "5", "8">>

\* C6, amended: in the discounting scenario the discounted cost of A,
\* 46734 / 1.035 ** 5, is 39348.77 to two places.
DiscountScenarioFigure ==
    (DiscountScenario /\ Past("discount")) =>
        /\ Format2f(cA) = <<"3", "9", "3", "4", "8", ".", "7", "7">>
        /\ FEq(calc.total_cost_A, FNum(46734))

DiscountScenarioReached == DiscountScenario /\ Past("discount")

\* ------------------------------------------------------------------------
\* C7: the table has exactly the rows Intervention A and Intervention B; row
\* B always has Incremental costs, Incremental QALY and ICER 0; row A has
\* discounted cost A minus discounted cost B, QALY A minus QALY B and the
\* ICER; the Costs column holds the discounted costs, not the totals.
DiscountedFromInputs(base_cost, visits, tests) ==
    discount_value(total_cost(base_cost, FNum(visits), inp.cost_per_outpatient_visit,
                              FNum(tests), inp.cost_per_test),
                   inp.discount_rate, inp.years)

TableStructure ==
    /\ pc # "done" => df = <<>>
    /\ pc = "done" =>
         LET dA == DiscountedFromInputs(inp.cost_intervention_A,
                       inp.number_of_visits_A, inp.number_of_tests_A)
             dB == DiscountedFromInputs(inp.cost_intervention_B,
                       inp.number_of_visits_B, inp.number_of_tests_B)
         IN  /\ Len(df) = 2
             /\ df[1].index = "Intervention A" /\ df[2].index = "Intervention B"
             /\ df[2].Incremental_costs = FNum(0)
             /\ df[2].Incremental_QALY = FNum(0)
             /\ df[2].ICER = FNum(0)
             /\ FEq(df[1].Incremental_costs, FSub(dA, dB))
             /\ FEq(df[1].Incremental_QALY, FSub(qA, qB))
             /\ SameValue(df[1].ICER, calculate_icer(dA, dB, qA, qB))
             /\ FEq(df[1].Costs, dA) /\ FEq(df[2].Costs, dB)
             /\ FEq(df[1].QALYs, qA) /\ FEq(df[2].QALYs, qB)

TableOfDiscountedCostsReached ==
    /\ pc = "done"
    /\ ~FEq(cA, calc.total_cost_A) /\ ~FEq(cB, calc.total_cost_B)
    /\ ~FEq(df[1].Incremental_costs, FNum(0))
    /\ ~FEq(df[1].Incremental_QALY, FNum(0))

\* ------------------------------------------------------------------------
\* C8: the steps run in the order input definition, calculation, console
\* output, plane rendering with the image write, table assembly, each at most
\* once and never again; the five lines are printed in their fixed order
\* before any plotting; the table is assembled only after the image has been
\* written, and a failed image write ends the run with no table.
PrintedLabels ==
    <<"Total and Discounted Cost for Intervention A",
      "Total and Discounted Cost for Intervention B",
      "Cost per QALY for Intervention A",
      "Cost per QALY for Intervention B",
      "ICER (Incremental Cost-Effectiveness Ratio)">>

InOrder ==
    /\ Len(stdout) <= 5
    /\ \A i \in 1..Len(stdout) : stdout[i][1] = PrintedLabels[i]
    /\ (pc # "failed" /\ Rank(pc) < Rank("print")) => stdout = <<>>
    /\ stdout # <<>> => calc.icer # NoValue
    /\ plot # NoPlot => Len(stdout) = 5
    /\ image => plot # NoPlot
    /\ df # <<>> => image
    /\ pc = "failed" => error = "savefig" /\ ~image /\ df = <<>> /\ plot # NoPlot
    /\ pc = "done" => df # <<>>

OneStep ==
    \/ pc # "failed" /\ pc' # "failed" /\ Rank(pc') = Rank(pc) + 1
    \/ pc = "print" /\ pc' = "print" /\ Len(stdout') = Len(stdout) + 1
    \/ pc = "savefig" /\ pc' = "failed"

SequentialRun == []InOrder /\ [][OneStep]_vars

FailedImageWriteReached ==
    pc = "failed" /\ error = "savefig" /\ Len(stdout) = 5 /\ df = <<>>

\* ------------------------------------------------------------------------
\* C9, as claimed: the x limits are (-1.2 |delta_qaly|, 1.2 |delta_qaly|) and
\* the y limits (-1.2 |delta_cost|, 1.2 |delta_cost|), the lower limit strictly
\* below the upper one on both axes, also for negative and for zero deltas.
AxisLimitsAsClaimed ==
    Past("plot") =>
        /\ FEq(plot.xlim[1], FNeg(FMul(FAbs(plot.delta_qaly), FDec(12, 10))))
        /\ FEq(plot.xlim[2], FMul(FAbs(plot.delta_qaly), FDec(12, 10)))
        /\ FEq(plot.ylim[1], FNeg(FMul(FAbs(plot.delta_cost), FDec(12, 10))))
        /\ FEq(plot.ylim[2], FMul(FAbs(plot.delta_cost), FDec(12, 10)))
        /\ FLt(plot.xlim[1], plot.xlim[2])
        /\ FLt(plot.ylim[1], plot.ylim[2])

\* ------------------------------------------------------------------------
\* C10, as claimed: for QALY A # QALY B, icer * delta_qaly == delta_cost with
\* delta_cost signed: the plotted point lies on the line of slope icer, and
\* the table's ICER is its Incremental costs over its Incremental QALY.
IcerConsistentAsClaimed ==
    /\ (Past("plot") /\ ~FEq(qA, qB)) =>
          FEq(FMul(calc.icer, plot.delta_qaly), plot.delta_cost)
    /\ (pc = "done" /\ ~FEq(qA, qB)) =>
          FEq(df[1].ICER, FDiv(df[1].Incremental_costs, df[1].Incremental_QALY))

\* C10, amended: for QALY A # QALY B, icer * delta_qaly == |delta_cost|: the
\* table's ICER is |Incremental costs| over Incremental QALY, and the plotted
\* point lies on the line of slope icer exactly when delta_cost >= 0.
IcerConsistent ==
    /\ (Past("plot") /\ ~FEq(qA, qB)) =>
          /\ FEq(FMul(calc.icer, plot.delta_qaly), FAbs(plot.delta_cost))
          /\ FEq(FMul(calc.icer, plot.point[1]), plot.point[2])
               <=> ~FLt(plot.delta_cost, FNum(0))
    /\ (pc = "done" /\ ~FEq(qA, qB)) =>
          FEq(df[1].ICER, FDiv(FAbs(df[1].Incremental_costs), df[1].Incremental_QALY))

CheaperAndDifferentReached ==
    Past("plot") /\ ~FEq(qA, qB) /\ FLt(plot.delta_cost, FNum(0))

====
